---- MODULE Spec2Model ----
(***************************************************************************)
(* Model of la-musicaaaa: the MIDI exporter (exportUtils), the AudioEngine *)
(* scheduler (utils/audioEngine.ts) and the MusicPlayer component that     *)
(* drives it (components/MusicPlayer.tsx).                                 *)
(*                                                                         *)
(* Time is kept in integer milliseconds.  A duration of the source         *)
(* (seconds, a float) is modelled by its number of milliseconds, and the   *)
(* float arithmetic of the source by exact integer arithmetic.             *)
(***************************************************************************)
EXTENDS Integers, Sequences, FiniteSets, TLC

VARIABLES
    arrangement,   \* the Arrangement prop: [notes, tempo_bpm, total_duration]
    midiOut,       \* bytes returned by the last exportToMIDI call (<<>>: none yet)
    midiPrev,      \* bytes returned by the exportToMIDI call before it (<<>>: none)
    midiDeltas,    \* per emitted Note-On/Note-Off pair: the locals deltaTime, duration
    vlqIn,         \* argument of the last encodeVariableLength call (-1: none yet)
    vlqOut,        \* its result
    nameIn,        \* a note name: [note, octave], as the regular expression splits it
    nameOut,       \* frequencyToNoteName(noteNameToFrequency(nameIn)), once computed
    pyOut,         \* the lines of the last exportToPython call (<<>>: none yet)
    envIn,         \* a note duration and the AudioSettings of an ADSR voice
    envOut,        \* the gain breakpoints playFrequency schedules for it (<<>>: none yet)
    engine,        \* the AudioEngine object: its private fields
    player,        \* MusicPlayer: playbackState, the refs, the pending timeouts
    inflight,      \* playArrangement calls suspended in await audioContext.resume()
    micro,         \* the microtask queue: continuations of settled awaits, in order
    lastCall,      \* the handler that ran last
    raced,         \* stopPlayback has run while a playArrangement call was suspended
    lastPoll       \* locals of the updateProgress pass that has just run

exportVars == <<midiOut, midiPrev, midiDeltas, vlqIn, vlqOut, nameIn, nameOut, pyOut, envIn, envOut>>

playVars == <<engine, player, inflight, micro, lastCall, raced, lastPoll>>

vars == <<arrangement, exportVars, playVars>>

Null == "null"

\* ------------------------------------------------------------------ bounds

\* longest note sequence drawn for an arrangement
MaxNotes == 3

\* largest value handed to encodeVariableLength on its own
MaxVlq == 16500

\* ---------------------------------------------------------------- helpers

\* Math.round(a / b) for a >= 0, b > 0: halves round up
Round(a, b) == (2 * a + b) \div (2 * b)

Max(a, b) == IF a >= b THEN a ELSE b

Min(a, b) == IF a <= b THEN a ELSE b

RECURSIVE SumDur(_, _)
\* sum of the durations of notes[1..n]
SumDur(notes, n) == IF n = 0 THEN 0 ELSE SumDur(notes, n - 1) + notes[n].duration

\* ------------------------------------------------------------- arrangement

\* Note (types/music.ts).  frequency in Hz, duration in ms.
Tone(f, d) == [frequency |-> f, duration |-> d, is_rest |-> FALSE]

Rest(d) == [frequency |-> 0, duration |-> d, is_rest |-> TRUE]

\* NoteSchema: a rest has frequency 0, a note a frequency in 80..4000;
\* durations lie in 0.01 s .. 10 s
NoteSchema(n) ==
    /\ n.duration >= 10 /\ n.duration <= 10000
    /\ IF n.is_rest THEN n.frequency = 0
       ELSE n.frequency >= 80 /\ n.frequency <= 4000

\* the frequencies drawn: A4 and C5
Frequencies == {440, 523}

\* Math.round(69 + 12 * Math.log2(frequency / 440)) on the frequencies drawn
MidiNumber(f) == CASE f = 440 -> 69
                   [] f = 523 -> 72

\* midiNote as result.set(events, ...) stores it in the Uint8Array.  For a
\* frequency of 0 Math.log2 gives -Infinity and midiNote is -Infinity, which
\* the typed array stores as 0.
MidiByte(f) == IF f = 0 THEN 0 ELSE MidiNumber(f) % 256

\* the notes the route lets through
Validated(S) == {n \in S : NoteSchema(n)}

NotesOver(durs) ==
    Validated({Tone(f, d) : f \in Frequencies, d \in durs} \cup {Rest(d) : d \in durs})

SeqsOver(S, n) == UNION {[1..k -> S] : k \in 1..n}

\* --------------------------------------------------------------- exportToMIDI

ticksPerQuarter == 480

\* a tempo that is rounded down
microsecondsPerQuarterFloor(bpm) == 60000000 \div bpm

\* microsecondsPerQuarter = Math.round(60000000 / tempo_bpm)
microsecondsPerQuarter(bpm) == Round(60000000, bpm)

\* Math.round((seconds * ticksPerQuarter * tempo_bpm) / 60), seconds = ms / 1000;
\* ticksPerQuarter / 60 = 8 is taken out first to stay within 32-bit integers
Ticks(ms, bpm) == Round(ms * bpm * (ticksPerQuarter \div 60), 1000)

RECURSIVE EncodeLoop(_, _)
\* the while loop of encodeVariableLength and the push that follows it
EncodeLoop(result, v) ==
    IF v > 127
    THEN EncodeLoop(<<(v % 128) + 128>> \o result, v \div 128)
    ELSE Append(result, v % 128)

encodeVariableLength(value) == EncodeLoop(<<>>, value)

header == <<77, 84, 104, 100,  0, 0, 0, 6,  0, 0,  0, 1,  1, 224>>

\* the tempo event pushed first
TempoEvent(bpm) ==
    LET m == microsecondsPerQuarter(bpm)
    IN  <<0, 255, 81, 3, (m \div 65536) % 256, (m \div 256) % 256, m % 256>>

\* the Note-On delta-time of the note at index i: the local deltaTime,
\* computed from currentTime, the sum of all earlier durations
NoteOnDelta(arr, i) == Ticks(SumDur(arr.notes, i - 1), arr.tempo_bpm)

\* the Note-Off delta-time: the local duration
NoteOffDelta(arr, i) == Ticks(arr.notes[i].duration, arr.tempo_bpm)

\* an iteration that writes an event pair for a rest too
NoteEventsRests(arr, i) ==
    LET note == arr.notes[i]
    IN  encodeVariableLength(NoteOnDelta(arr, i))
            \o <<144, MidiByte(note.frequency), 100>>
            \o encodeVariableLength(NoteOffDelta(arr, i))
            \o <<128, MidiByte(note.frequency), 0>>

\* what one iteration of the forEach pushes
NoteEvents(arr, i) ==
    LET note == arr.notes[i]
    IN  IF ~note.is_rest
        THEN encodeVariableLength(NoteOnDelta(arr, i))
                 \o <<144, MidiByte(note.frequency), 100>>
                 \o encodeVariableLength(NoteOffDelta(arr, i))
                 \o <<128, MidiByte(note.frequency), 0>>
        ELSE <<>>

RECURSIVE AllNoteEvents(_, _)
AllNoteEvents(arr, n) ==
    IF n = 0 THEN <<>> ELSE AllNoteEvents(arr, n - 1) \o NoteEvents(arr, n)

EndOfTrack == <<0, 255, 47, 0>>

events(arr) == TempoEvent(arr.tempo_bpm) \o AllNoteEvents(arr, Len(arr.notes)) \o EndOfTrack

\* trackLength = events.length, taken after the end-of-track push
trackLengthWithHeader(ev) == Len(ev) + 8

trackLength(ev) == Len(ev)

trackHeader(ev) ==
    LET n == trackLength(ev)
    IN  <<77, 84, 114, 107,
          (n \div 16777216) % 256, (n \div 65536) % 256, (n \div 256) % 256, n % 256>>

\* an export that keeps something between calls
exportToMIDIStateful(arr) ==
    header \o trackHeader(events(arr)) \o events(arr)
        \o (IF midiOut # <<>> THEN <<0>> ELSE <<>>)

exportToMIDI(arr) == header \o trackHeader(events(arr)) \o events(arr)

RECURSIVE PairDeltas(_, _)
\* the (deltaTime, duration) locals of every non-rest iteration, in order
PairDeltas(arr, n) ==
    IF n = 0 THEN <<>>
    ELSE IF ~arr.notes[n].is_rest
         THEN Append(PairDeltas(arr, n - 1),
                     [index |-> n, on |-> NoteOnDelta(arr, n), off |-> NoteOffDelta(arr, n)])
         ELSE PairDeltas(arr, n - 1)

\* ---------------------------------------------------------- export actions

ExportDurations == {10, 500, 10000}

Tempos == {60, 70, 120, 200}

ExportArrangements ==
    {[notes |-> ns, tempo_bpm |-> bpm, total_duration |-> SumDur(ns, Len(ns))] :
        ns \in SeqsOver(NotesOver(ExportDurations), MaxNotes), bpm \in Tempos}

\* ------------------------------------------------------------- note names

\* highest octave number drawn for a note name
MaxOctave == 8

\* the names /^([A-G][#b]?)(\d+)$/ matches, split into its two groups
NoteNames ==
    {[note |-> letter \o accidental, octave |-> octave] :
        letter \in {"A", "B", "C", "D", "E", "F", "G"},
        accidental \in {"", "#", "b"},
        octave \in 0..MaxOctave}

\* strings the regular expression does not match, split the same way: a
\* letter outside A-G, a lower-case letter, two accidentals, no letter, and
\* names without octave digits (octave -1)
BadNames ==
    {[note |-> note, octave |-> octave] :
        note \in {"H", "a", "A##", ""}, octave \in 0..MaxOctave}
    \cup {[note |-> note, octave |-> -1] : note \in {"A", "C#", "Eb"}}

\* noteName.match(/^([A-G][#b]?)(\d+)$/) is not null
Matches(name) ==
    /\ name.note \in {letter \o accidental :
                          letter \in {"A", "B", "C", "D", "E", "F", "G"},
                          accidental \in {"", "#", "b"}}
    /\ name.octave >= 0

noteMap ==
    ("C" :> 0) @@ ("C#" :> 1) @@ ("Db" :> 1) @@ ("D" :> 2) @@ ("D#" :> 3) @@ ("Eb" :> 3)
        @@ ("E" :> 4) @@ ("F" :> 5) @@ ("F#" :> 6) @@ ("Gb" :> 6) @@ ("G" :> 7)
        @@ ("G#" :> 8) @@ ("Ab" :> 8) @@ ("A" :> 9) @@ ("A#" :> 10) @@ ("Bb" :> 10)
        @@ ("B" :> 11)

noteNames == <<"C", "C#", "D", "D#", "E", "F", "F#", "G", "G#", "A", "A#", "B">>

\* noteNameToFrequency.  The frequency 440 * 2^(k / 12) it returns is kept as
\* k = midiNumber - 69, its distance from A4 in semitones.
noteNameToFrequency(name) ==
    IF ~Matches(name) THEN [threw |-> TRUE, semitones |-> 0]
    ELSE IF name.note \notin DOMAIN noteMap THEN [threw |-> TRUE, semitones |-> 0]
    ELSE LET midiNumber == (name.octave + 1) * 12 + noteMap[name.note]
         IN  [threw |-> FALSE, semitones |-> midiNumber - 69]

\* frequencyToNoteName of the frequency 440 * 2^(k / 12), for midiNumber >= 0
frequencyToNoteName(k) ==
    LET midiNumber == 69 + k
        octave == (midiNumber \div 12) - 1
        semitone == midiNumber % 12
    IN  [note |-> noteNames[semitone + 1], octave |-> octave]

NoName == [done |-> FALSE, threw |-> FALSE, name |-> [note |-> "", octave |-> -1]]

\* frequencyToNoteName(noteNameToFrequency(nameIn))
NameRoundTrip ==
    /\ ~nameOut.done
    /\ LET f == noteNameToFrequency(nameIn)
       IN  nameOut' = IF f.threw THEN [NoName EXCEPT !.done = TRUE, !.threw = TRUE]
                      ELSE [done |-> TRUE, threw |-> FALSE,
                            name |-> frequencyToNoteName(f.semitones)]
    /\ UNCHANGED <<arrangement, midiOut, midiPrev, midiDeltas, vlqIn, vlqOut, nameIn, pyOut,
                   envIn, envOut, playVars>>

\* ------------------------------------------------------------ exportToPython

\* x.toFixed(2) of a number given in thousandths: its hundredths, halves up
ToFixed2(thousandths) == Round(thousandths, 10)

\* note.note_name || frequencyToNoteName(note.frequency)
NoteNameOf(note) ==
    IF "note_name" \in DOMAIN note /\ note.note_name # ""
    THEN note.note_name
    ELSE LET name == frequencyToNoteName(MidiNumber(note.frequency) - 69)
         IN  name.note \o ToString(name.octave)

\* an iteration that writes play_frequency for every note
PythonStatementPlayOnly(note) ==
    [call |-> "play_frequency", frequency |-> ToFixed2(note.frequency * 1000),
     duration |-> ToFixed2(note.duration), comment |-> "Rest"]

\* the line one iteration of the forEach pushes
PythonStatement(note) ==
    IF note.is_rest
    THEN [call |-> "time.sleep", frequency |-> 0,
          duration |-> ToFixed2(note.duration), comment |-> "Rest"]
    ELSE [call |-> "play_frequency", frequency |-> ToFixed2(note.frequency * 1000),
          duration |-> ToFixed2(note.duration), comment |-> NoteNameOf(note)]

\* a line that does not depend on the notes
FixedLine(text) == [call |-> text, frequency |-> 0, duration |-> 0, comment |-> ""]

\* the lines pushed before the forEach: three comments, the import, the
\* definition of play_frequency and the head of play_arrangement
PythonPreamble ==
    <<FixedLine("# title"), FixedLine("# Key, Tempo"), FixedLine("# Total duration"),
      FixedLine(""), FixedLine("import time"), FixedLine(""),
      FixedLine("def play_frequency(frequency, duration):"), FixedLine("docstring"),
      FixedLine("# Implement"), FixedLine("print"), FixedLine("time.sleep(duration)"),
      FixedLine(""), FixedLine("def play_arrangement():"), FixedLine("docstring")>>

PythonTrailer ==
    <<FixedLine(""), FixedLine("if __name__ == '__main__':"), FixedLine("play_arrangement()")>>

exportToPython(arr) ==
    PythonPreamble \o [k \in 1..Len(arr.notes) |-> PythonStatement(arr.notes[k])]
        \o PythonTrailer

\* notes with and without a note_name
PythonNotes ==
    Validated({Tone(440, 500), Tone(523, 10), Rest(500),
               [frequency |-> 440, duration |-> 250, is_rest |-> FALSE, note_name |-> "La4"],
               [frequency |-> 0, duration |-> 250, is_rest |-> TRUE, note_name |-> "Silence"]})

PythonArrangements ==
    {[notes |-> ns, tempo_bpm |-> 120, total_duration |-> SumDur(ns, Len(ns))] :
        ns \in SeqsOver(PythonNotes, MaxNotes)}

\* a call of exportToPython(arrangement)
ExportPython ==
    /\ pyOut = <<>>
    /\ pyOut' = exportToPython(arrangement)
    /\ UNCHANGED <<arrangement, midiOut, midiPrev, midiDeltas, vlqIn, vlqOut, nameIn, nameOut,
                   envIn, envOut, playVars>>

\* ------------------------------------------------- playFrequency's envelope

\* defaultAudioSettings: attack 0.005 s, decay 0.05 s, sustain 0.8, release
\* 0.02 s; times in ms, levels in tenths
defaultAudioSettings == [attack |-> 5, decay |-> 50, sustain |-> 8, release |-> 20]

\* the settings drawn: the defaults and slower ones
EnvelopeSettings ==
    {[attack |-> a, decay |-> d, sustain |-> s, release |-> r] :
        a \in {5, 100}, d \in {50, 200}, s \in {5, 8}, r \in {20, 300}}

EnvelopeDurations == {10, 50, 100, 500, 1000}

\* the ADSR envelope of playFrequency(frequency, duration): the calls on
\* currentGain.gain in order, each with its time in ms after now
AdsrEnvelope(settings, duration) ==
    LET attackTime == settings.attack
        decayTime == settings.decay
        sustainLevel == settings.sustain
        releaseTime == settings.release
        releaseStartTime == duration - releaseTime
    IN  <<[at |-> 0, gain |-> 0],
          [at |-> attackTime, gain |-> 10],
          [at |-> attackTime + decayTime, gain |-> sustainLevel],
          [at |-> releaseStartTime, gain |-> sustainLevel],
          [at |-> duration, gain |-> 0]>>

\* a call of playFrequency for a note of envIn.duration
PlayFrequency ==
    /\ envOut = <<>>
    /\ envOut' = AdsrEnvelope(envIn.settings, envIn.duration)
    /\ UNCHANGED <<arrangement, midiOut, midiPrev, midiDeltas, vlqIn, vlqOut, nameIn, nameOut,
                   pyOut, envIn, playVars>>

\* arrangements as the Arrangement type admits them: a note that is no rest
\* may have frequency 0
RawArrangements ==
    {[notes |-> ns, tempo_bpm |-> bpm, total_duration |-> SumDur(ns, Len(ns))] :
        ns \in SeqsOver({Tone(0, 500), Tone(440, 500), Rest(500)}, MaxNotes), bpm \in Tempos}

ExportIdle ==
    /\ midiOut = <<>>
    /\ midiPrev = <<>>
    /\ midiDeltas = <<>>
    /\ vlqIn = -1
    /\ vlqOut = <<>>
    /\ nameOut = NoName
    /\ pyOut = <<>>
    /\ envOut = <<>>

\* a call of exportToMIDI(arrangement): the first, and one more
ExportMIDI ==
    /\ micro = <<>>
    /\ midiPrev = <<>>
    /\ midiPrev' = midiOut
    /\ midiOut' = exportToMIDI(arrangement)
    /\ midiDeltas' = PairDeltas(arrangement, Len(arrangement.notes))
    /\ UNCHANGED <<arrangement, vlqIn, vlqOut, nameIn, nameOut, pyOut, envIn, envOut, playVars>>

\* a call of encodeVariableLength(v)
EncodeVLQ ==
    /\ vlqIn = -1
    /\ \E v \in 0..MaxVlq :
          /\ vlqIn' = v
          /\ vlqOut' = encodeVariableLength(v)
    /\ UNCHANGED <<arrangement, midiOut, midiPrev, midiDeltas, nameIn, nameOut, pyOut, envIn,
                   envOut, playVars>>

\* ================================================================ AudioEngine

\* the fields after new AudioEngine(settings)
EngineNew ==
    [audioContext |-> Null,        \* null, or the context's state: suspended, running
     masterGain |-> FALSE,         \* masterGain is non-null
     scheduledNotes |-> <<>>,
     currentOscillator |-> Null,
     isPlaying |-> FALSE,
     cancelled |-> 0]              \* stopped oscillators whose ended event is still to come

\* how often the ended event of a cancelled oscillator is told apart
MaxCancelled == 1

\* initialize(): the outcomes of its try block.  `how` is the step that throws
\* (none; context: new AudioContext; gain: createGain; connect: connect or the
\* volume assignment) and `state` the state the new context starts in.
initialize(e, how, state) ==
    IF e.audioContext # Null THEN [eng |-> e, threw |-> FALSE]
    ELSE CASE how = "context" -> [eng |-> e, threw |-> TRUE]
           [] how = "gain" -> [eng |-> [e EXCEPT !.audioContext = state], threw |-> TRUE]
           [] how = "connect" -> [eng |-> [e EXCEPT !.audioContext = state, !.masterGain = TRUE],
                                  threw |-> TRUE]
           [] OTHER -> [eng |-> [e EXCEPT !.audioContext = state, !.masterGain = TRUE],
                        threw |-> FALSE]

InitOutcomes == {"none", "context", "gain", "connect"}

ContextStates == {"running", "suspended"}

stopCurrentNote(e) ==
    IF e.currentOscillator # Null THEN [e EXCEPT !.currentOscillator = Null] ELSE e

\* a stopAllNotes that forgets to clear the array
stopAllNotesKeep(e) == stopCurrentNote([e EXCEPT !.isPlaying = FALSE])

\* stopAllNotes(): every tracked oscillator is stopped (its ended event stays
\* due), the array is replaced by an empty one
stopAllNotes(e) ==
    stopCurrentNote([e EXCEPT !.isPlaying = FALSE,
                              !.cancelled = Min(@ + Len(e.scheduledNotes), MaxCancelled),
                              !.scheduledNotes = <<>>])

pausePlayback(e) == stopAllNotes([e EXCEPT !.isPlaying = FALSE])

\* scheduleNote's envelope: breakpoints as microseconds after startTime and
\* gain in tenths
Envelope(noteDuration) ==
    LET fadeIn == Min(5000, noteDuration * 50)
        fadeOut == Min(10000, noteDuration * 100)
    IN  <<[at |-> 0, gain |-> 0],
          [at |-> fadeIn, gain |-> 7],
          [at |-> noteDuration * 1000 - fadeOut, gain |-> 7],
          [at |-> noteDuration * 1000, gain |-> 0]>>

\* const noteDuration = Math.max(0.05, duration - 0.02)
NoteDuration(duration) == Max(50, duration - 20)

\* a scheduleNote that starts a voice when the voice before it stops
scheduleNoteChained(e, index, duration, startTime) ==
    IF e.audioContext = Null \/ ~e.masterGain THEN e
    ELSE LET at == IF e.scheduledNotes = <<>> THEN startTime
                   ELSE e.scheduledNotes[Len(e.scheduledNotes)].stopIn
         IN  [e EXCEPT !.scheduledNotes =
                 Append(@, [index |-> index,
                            startIn |-> at,
                            stopIn |-> at + NoteDuration(duration),
                            duration |-> duration,
                            noteDuration |-> NoteDuration(duration),
                            envelope |-> Envelope(NoteDuration(duration)),
                            latest |-> TRUE])]

\* scheduleNote(frequency, duration, startTime): the voice it pushes.  Times
\* are kept relative to the audio clock: startIn / stopIn are the ms left
\* until oscillator.start / oscillator.stop take effect.
scheduleNote(e, index, duration, startTime) ==
    IF e.audioContext = Null \/ ~e.masterGain THEN e
    ELSE [e EXCEPT !.scheduledNotes =
            Append(@, [index |-> index,
                       startIn |-> startTime,
                       stopIn |-> startTime + NoteDuration(duration),
                       duration |-> duration,
                       noteDuration |-> NoteDuration(duration),
                       envelope |-> Envelope(NoteDuration(duration)),
                       latest |-> TRUE])]

RECURSIVE ScheduleAllRests(_, _, _)
\* a pass that gives every note a voice, rests too
ScheduleAllRests(e, notes, n) ==
    IF n = 0 THEN e
    ELSE scheduleNote(ScheduleAllRests(e, notes, n - 1), n - 1, notes[n].duration,
                      SumDur(notes, n - 1))

RECURSIVE ScheduleAll(_, _, _)
\* the forEach of playNoteSequence over notes[1..n]
ScheduleAll(e, notes, n) ==
    IF n = 0 THEN e
    ELSE LET before == ScheduleAll(e, notes, n - 1)
             note == notes[n]
         IN  IF ~note.is_rest /\ note.frequency > 0
             THEN scheduleNote(before, n - 1, note.duration, SumDur(notes, n - 1))
             ELSE before

\* the positions of the notes that get a voice
Voiced(notes) == {n \in 1..Len(notes) : ~notes[n].is_rest /\ notes[n].frequency > 0}

\* voices that survive a new pass belong to an earlier run
Aged(e) ==
    [e EXCEPT !.scheduledNotes = [k \in 1..Len(@) |-> [@[k] EXCEPT !.latest = FALSE]]]

\* a playNoteSequence that schedules on top of what is there
playNoteSequenceNoStop(e, notes, failAt) ==
    IF e.audioContext = Null \/ ~e.masterGain THEN [eng |-> e, threw |-> TRUE]
    ELSE LET kept == [Aged(e) EXCEPT !.isPlaying = TRUE]
         IN  IF failAt = 0
             THEN [eng |-> ScheduleAll(kept, notes, Len(notes)), threw |-> FALSE]
             ELSE [eng |-> ScheduleAll(kept, notes, failAt - 1), threw |-> TRUE]

\* playNoteSequence after its await: the guard, stopAllNotes, the pass.
\* failAt = 0: every voice is created; failAt = n: createOscillator throws at
\* the voiced note n, after the voices of the notes before it were pushed.
playNoteSequenceBody(e, notes, failAt) ==
    IF e.audioContext = Null \/ ~e.masterGain THEN [eng |-> e, threw |-> TRUE]
    ELSE LET cleared == [Aged(stopAllNotes(e)) EXCEPT !.isPlaying = TRUE]
         IN  IF failAt = 0
             THEN [eng |-> ScheduleAll(cleared, notes, Len(notes)), threw |-> FALSE]
             ELSE [eng |-> ScheduleAll(cleared, notes, failAt - 1), threw |-> TRUE]

\* oscillator.onended of the voice at position k of scheduledNotes
onended(e, k) ==
    LET rest == SubSeq(e.scheduledNotes, 1, k - 1)
                    \o SubSeq(e.scheduledNotes, k + 1, Len(e.scheduledNotes))
    IN  [e EXCEPT !.scheduledNotes = rest,
                  !.isPlaying = IF Len(rest) = 0 THEN FALSE ELSE @]

\* oscillator.onended of an oscillator stopAllNotes has dropped from the array
onendedCancelled(e) ==
    [e EXCEPT !.cancelled = @ - 1,
              !.isPlaying = IF Len(e.scheduledNotes) = 0 THEN FALSE ELSE @]

\* the audio clock advances by ms: running contexts only
AudioAdvance(e, ms) ==
    IF e.audioContext # "running" THEN e
    ELSE [e EXCEPT !.scheduledNotes =
            [k \in 1..Len(@) |-> [@[k] EXCEPT !.startIn = Max(0, @ - ms),
                                              !.stopIn = Max(0, @ - ms)]]]

\* ================================================================ MusicPlayer

\* setTimeout(updateProgress, 50)
PollMs == 50

\* the step of the clocks
TickMs == PollMs \div 5

Idle(ps) == [ps EXCEPT !.isPlaying = FALSE, !.currentNoteIndex = -1, !.currentTime = 0]

\* playbackTimerRef.current: null, the id of the pending timeout timers.held,
\* or the id of a timeout that has run
NoTimer == "null"

HeldTimer == "held"

FiredTimer == "fired"

\* The pending timeouts, each by the ms left until it is due.  Timeouts differ
\* only in whether playbackTimerRef holds their id: the one it holds is kept
\* apart (held: empty or one entry), the others are a sorted list (loose).
NoTimers == [held |-> <<>>, loose |-> <<>>]

RECURSIVE SortedInsert(_, _)
SortedInsert(dues, x) ==
    IF dues = <<>> THEN <<x>>
    ELSE IF x <= Head(dues) THEN <<x>> \o dues
         ELSE <<Head(dues)>> \o SortedInsert(Tail(dues), x)

\* playbackTimerRef.current = setTimeout(updateProgress, ms)
SetTimeoutHeld(timers, ms) ==
    [held |-> <<ms>>,
     loose |-> IF timers.held = <<>> THEN timers.loose
               ELSE SortedInsert(timers.loose, timers.held[1])]

\* clearTimeout(playbackTimerRef.current)
ClearHeld(timers) == [timers EXCEPT !.held = <<>>]

\* lastPoll before any pass, and after a pass that returned at its guard
NoPoll == [elapsedTime |-> -1, noteIndex |-> -1, finished |-> FALSE]

\* the component after mount and the effect that copies total_duration
PlayerNew(arr) ==
    [playbackState |-> [isPlaying |-> FALSE, currentNoteIndex |-> -1, currentTime |-> 0,
                        totalDuration |-> arr.total_duration],
     isPlayingRef |-> FALSE,
     playbackTimerRef |-> NoTimer,
     timers |-> NoTimers,
     sinceStart |-> 0]              \* Date.now() - startTimeRef.current, in ms

\* beyond this every elapsed time reads the same
ElapsedCap(arr) == Max(arr.total_duration, SumDur(arr.notes, Len(arr.notes))) + TickMs

RECURSIVE FindLoop(_, _, _, _)
\* the for loop of updateProgress from index i (0-based) with noteTime
FindLoop(notes, i, noteTime, elapsedTime) ==
    IF i >= Len(notes) THEN 0
    ELSE IF elapsedTime >= noteTime /\ elapsedTime < noteTime + notes[i + 1].duration
         THEN i
         ELSE FindLoop(notes, i + 1, noteTime + notes[i + 1].duration, elapsedTime)

\* a search that gives the boundary to the note that ends
FindNoteClosed(notes, elapsedTime) ==
    LET hits == {i \in 0..(Len(notes) - 1) :
                    /\ elapsedTime > SumDur(notes, i)
                    /\ elapsedTime <= SumDur(notes, i + 1)}
    IN  IF hits = {} THEN 0 ELSE CHOOSE i \in hits : \A j \in hits : i <= j

FindNote(notes, elapsedTime) == FindLoop(notes, 0, 0, elapsedTime)

\* an updateProgress that never finishes the run
updateProgressForever(p, arr) ==
    IF ~p.isPlayingRef THEN p
    ELSE [p EXCEPT !.playbackState = [@ EXCEPT !.currentNoteIndex = FindNote(arr.notes, p.sinceStart),
                                               !.currentTime = p.sinceStart],
                   !.timers = SetTimeoutHeld(@, PollMs),
                   !.playbackTimerRef = HeldTimer]

\* updateProgress(): one pass of the progress poll
updateProgress(p, arr) ==
    IF ~p.isPlayingRef THEN p
    ELSE LET elapsedTime == p.sinceStart
             noteIndex == FindNote(arr.notes, elapsedTime)
         IN  IF elapsedTime < arr.total_duration
             THEN [p EXCEPT !.playbackState = [@ EXCEPT !.currentNoteIndex = noteIndex,
                                                        !.currentTime = elapsedTime],
                            !.timers = SetTimeoutHeld(@, PollMs),
                            !.playbackTimerRef = HeldTimer]
             ELSE [p EXCEPT !.playbackState = Idle(@),
                            !.isPlayingRef = FALSE]

\* what the pass computed
PollOf(p, arr) ==
    IF ~p.isPlayingRef THEN NoPoll
    ELSE [elapsedTime |-> p.sinceStart,
          noteIndex |-> FindNote(arr.notes, p.sinceStart),
          finished |-> ~(p.sinceStart < arr.total_duration)]

\* stopPlayback(): the player's half
stopPlaybackPlayer(p) ==
    [p EXCEPT !.isPlayingRef = FALSE,
              !.timers = IF p.playbackTimerRef # NoTimer THEN ClearHeld(@) ELSE @,
              !.playbackTimerRef = NoTimer,
              !.playbackState = Idle(@)]

\* a stopPlayback that leaves the engine alone
stopPlaybackNoPause(e) == e

\* stopPlayback(): the engine's half
stopPlaybackEngine(e) == pausePlayback(e)

\* playArrangement after await resume(): up to the call of playNoteSequence
Started(p) ==
    [p EXCEPT !.isPlayingRef = TRUE,
              !.playbackState = [@ EXCEPT !.isPlaying = TRUE, !.currentNoteIndex = 0,
                                          !.currentTime = 0],
              !.sinceStart = 0]

\* time passes for Date.now() and the pending timeouts.  Date.now() is read by
\* updateProgress alone, behind its isPlayingRef guard, and startTimeRef is set
\* anew before isPlayingRef turns true: the elapsed time of a stopped run is
\* read by nobody and goes to the cap at once.
WallAdvance(p, arr, ms) ==
    [p EXCEPT !.sinceStart = IF p.isPlayingRef THEN Min(@ + ms, ElapsedCap(arr))
                             ELSE ElapsedCap(arr),
              !.timers = [held |-> [k \in 1..Len(@.held) |-> Max(0, @.held[k] - ms)],
                          loose |-> [k \in 1..Len(@.loose) |-> Max(0, @.loose[k] - ms)]]]

\* ------------------------------------------------------------------ actions

\* a handler other than updateProgress has run
Ran(name) == lastCall' = name /\ lastPoll' = NoPoll

\* onClick={playbackState.isPlaying ? stopPlayback : playArrangement}
StopOffered == player.playbackState.isPlaying

PlayOffered == ~player.playbackState.isPlaying

\* most playArrangement calls suspended at once
MaxInflight == 2

\* click on Jouer: playArrangement up to await resume()
PlayClick ==
    /\ micro = <<>>
    /\ PlayOffered
    /\ IF engine.audioContext = "suspended"
       THEN /\ inflight < MaxInflight
            /\ inflight' = inflight + 1
            /\ micro' = micro
       ELSE /\ micro' = <<"resumed">>
            /\ inflight' = inflight
    /\ Ran("playArrangement")
    /\ raced' = IF inflight = 0 THEN FALSE ELSE raced
    /\ UNCHANGED <<arrangement, exportVars, engine, player>>

\* audioContext.resume() settles: every suspended playArrangement continues
ResumeDone ==
    /\ micro = <<>>
    /\ inflight > 0
    /\ engine.audioContext = "suspended"
    /\ engine' = [engine EXCEPT !.audioContext = "running"]
    /\ micro' = [k \in 1..inflight |-> "resumed"]
    /\ inflight' = 0
    /\ Ran("resume")
    /\ UNCHANGED <<arrangement, exportVars, player, raced>>

\* a context that was created suspended is allowed to start by the browser
ContextStarts ==
    /\ micro = <<>>
    /\ inflight = 0
    /\ engine.audioContext = "suspended"
    /\ engine' = [engine EXCEPT !.audioContext = "running"]
    /\ Ran("statechange")
    /\ UNCHANGED <<arrangement, exportVars, player, inflight, micro, raced>>

\* click on Pause: stopPlayback
StopClick ==
    /\ micro = <<>>
    /\ StopOffered
    /\ player' = stopPlaybackPlayer(player)
    /\ engine' = stopPlaybackEngine(engine)
    /\ raced' = (raced \/ inflight > 0)
    /\ Ran("stopPlayback")
    /\ UNCHANGED <<arrangement, exportVars, inflight, micro>>

\* playArrangement lines 86-97: after await resume() up to await playNoteSequence
ContResumed ==
    /\ micro # <<>> /\ Head(micro) = "resumed"
    /\ player' = Started(player)
    /\ IF engine.audioContext = Null \/ ~engine.masterGain
       THEN \E how \in InitOutcomes, state \in ContextStates :
               LET r == initialize(engine, how, state)
               IN  /\ engine' = r.eng
                   /\ micro' = Append(Tail(micro), IF r.threw THEN "initThrew" ELSE "initDone")
       ELSE \E failAt \in {0} \cup Voiced(arrangement.notes) :
               LET r == playNoteSequenceBody(engine, arrangement.notes, failAt)
               IN  /\ engine' = r.eng
                   /\ micro' = Append(Tail(micro), IF r.threw THEN "failed" ELSE "sequenced")
    /\ Ran("playArrangement")
    /\ UNCHANGED <<arrangement, exportVars, inflight, raced>>

\* playNoteSequence after await initialize()
ContInitialized ==
    /\ micro # <<>> /\ Head(micro) \in {"initDone", "initThrew"}
    /\ IF Head(micro) = "initThrew"
       THEN /\ engine' = engine
            /\ micro' = Append(Tail(micro), "failed")
       ELSE \E failAt \in {0} \cup Voiced(arrangement.notes) :
               LET r == playNoteSequenceBody(engine, arrangement.notes, failAt)
               IN  /\ engine' = r.eng
                   /\ micro' = Append(Tail(micro), IF r.threw THEN "failed" ELSE "sequenced")
    /\ Ran("playNoteSequence")
    /\ UNCHANGED <<arrangement, exportVars, player, inflight, raced>>

\* playArrangement after await playNoteSequence: trackPlaybackProgress
ContSequenced ==
    /\ micro # <<>> /\ Head(micro) = "sequenced"
    /\ micro' = Tail(micro)
    /\ player' = updateProgress(player, arrangement)
    /\ lastPoll' = PollOf(player, arrangement)
    /\ lastCall' = "updateProgress"
    /\ UNCHANGED <<arrangement, exportVars, engine, inflight, raced>>

\* playArrangement's catch: stopPlayback
ContFailed ==
    /\ micro # <<>> /\ Head(micro) = "failed"
    /\ micro' = Tail(micro)
    /\ player' = stopPlaybackPlayer(player)
    /\ engine' = stopPlaybackEngine(engine)
    /\ raced' = (raced \/ Tail(micro) # <<>>)
    /\ Ran("stopPlayback")
    /\ UNCHANGED <<arrangement, exportVars, inflight>>

\* the player once a due timeout has been taken off the pending ones
TimerTaken(p, isHeld) ==
    IF isHeld
    THEN [p EXCEPT !.timers = ClearHeld(@), !.playbackTimerRef = FiredTimer]
    ELSE [p EXCEPT !.timers = [@ EXCEPT !.loose = Tail(@)]]

\* a timeout set by updateProgress is due: updateProgress runs
TimerFire ==
    /\ micro = <<>>
    /\ \E isHeld \in BOOLEAN :
          /\ IF isHeld THEN player.timers.held = <<0>>
             ELSE player.timers.loose # <<>> /\ Head(player.timers.loose) = 0
          /\ LET p == TimerTaken(player, isHeld)
             IN  /\ player' = updateProgress(p, arrangement)
                 /\ lastPoll' = PollOf(p, arrangement)
    /\ lastCall' = "updateProgress"
    /\ UNCHANGED <<arrangement, exportVars, engine, inflight, micro, raced>>

\* the ended event of a tracked voice whose stop time has passed
Ended ==
    /\ micro = <<>>
    /\ engine.audioContext = "running"
    /\ \E k \in 1..Len(engine.scheduledNotes) :
          /\ engine.scheduledNotes[k].stopIn = 0
          /\ engine' = onended(engine, k)
    /\ Ran("onended")
    /\ UNCHANGED <<arrangement, exportVars, player, inflight, micro, raced>>

\* the ended event of an oscillator stopAllNotes stopped
EndedCancelled ==
    /\ micro = <<>>
    /\ engine.audioContext = "running"
    /\ engine.cancelled > 0
    /\ engine' = onendedCancelled(engine)
    /\ Ran("onended")
    /\ UNCHANGED <<arrangement, exportVars, player, inflight, micro, raced>>

\* TickMs of time pass
Tick ==
    /\ micro = <<>>
    /\ player' = WallAdvance(player, arrangement, TickMs)
    /\ engine' = AudioAdvance(engine, TickMs)
    /\ Ran("tick")
    /\ UNCHANGED <<arrangement, exportVars, inflight, micro, raced>>

\* ----------------------------------------------------------- specifications

PlayDurations == {10, 50}

RestDurations == {50}

\* declared total_duration minus the sum of the durations
TotalSlacks == {-20, 0, 40}

\* longest note sequence drawn for playback
MaxPlayNotes == 2

PlayArrangements ==
    {[notes |-> ns, tempo_bpm |-> 120, total_duration |-> SumDur(ns, Len(ns)) + slack] :
        ns \in SeqsOver(Validated({Tone(440, d) : d \in PlayDurations}
                                       \cup {Rest(d) : d \in RestDurations}),
                        MaxPlayNotes),
        slack \in TotalSlacks}

PlayIdle ==
    /\ nameIn = [note |-> "A", octave |-> 4]
    /\ envIn = [duration |-> 500, settings |-> defaultAudioSettings]
    /\ engine = EngineNew
    /\ player = PlayerNew(arrangement)
    /\ inflight = 0
    /\ micro = <<>>
    /\ lastCall = "none"
    /\ raced = FALSE
    /\ lastPoll = NoPoll

Init ==
    /\ arrangement \in PlayArrangements
    /\ ExportIdle
    /\ PlayIdle

Next ==
    \/ PlayClick
    \/ ResumeDone
    \/ ContextStarts
    \/ StopClick
    \/ ContResumed
    \/ ContInitialized
    \/ ContSequenced
    \/ ContFailed
    \/ TimerFire
    \/ Ended
    \/ EndedCancelled
    \/ Tick

Spec == Init /\ [][Next]_vars

\* timers fire, microtasks run and time passes; clicks are up to the user
Fairness ==
    /\ WF_vars(Tick)
    /\ WF_vars(TimerFire)
    /\ WF_vars(ContResumed)
    /\ WF_vars(ContInitialized)
    /\ WF_vars(ContSequenced)
    /\ WF_vars(ContFailed)

FairSpec == Spec /\ Fairness

InitExport ==
    /\ arrangement \in ExportArrangements
    /\ ExportIdle
    /\ PlayIdle

SpecExport == InitExport /\ [][ExportMIDI]_vars

InitExportRaw ==
    /\ arrangement \in RawArrangements
    /\ ExportIdle
    /\ PlayIdle

SpecExportRaw == InitExportRaw /\ [][ExportMIDI]_vars

\* playback with exports in between
NextWithExport == Next \/ ExportMIDI

SpecPlayExport == Init /\ [][NextWithExport]_vars

InitVlq ==
    /\ arrangement = [notes |-> <<Tone(440, 500)>>, tempo_bpm |-> 120, total_duration |-> 500]
    /\ ExportIdle
    /\ PlayIdle

SpecVlq == InitVlq /\ [][EncodeVLQ]_vars

InitNames ==
    /\ arrangement = [notes |-> <<Tone(440, 500)>>, tempo_bpm |-> 120, total_duration |-> 500]
    /\ ExportIdle
    /\ nameIn \in NoteNames
    /\ envIn = [duration |-> 500, settings |-> defaultAudioSettings]
    /\ engine = EngineNew
    /\ player = PlayerNew(arrangement)
    /\ inflight = 0
    /\ micro = <<>>
    /\ lastCall = "none"
    /\ raced = FALSE
    /\ lastPoll = NoPoll

SpecNames == InitNames /\ [][NameRoundTrip]_vars

InitPython ==
    /\ arrangement \in PythonArrangements
    /\ ExportIdle
    /\ PlayIdle

SpecPython == InitPython /\ [][ExportPython]_vars

InitEnvelope ==
    /\ arrangement = [notes |-> <<Tone(440, 500)>>, tempo_bpm |-> 120, total_duration |-> 500]
    /\ ExportIdle
    /\ nameIn = [note |-> "A", octave |-> 4]
    /\ envIn \in {[duration |-> d, settings |-> st] :
                     d \in EnvelopeDurations, st \in EnvelopeSettings}
    /\ engine = EngineNew
    /\ player = PlayerNew(arrangement)
    /\ inflight = 0
    /\ micro = <<>>
    /\ lastCall = "none"
    /\ raced = FALSE
    /\ lastPoll = NoPoll

SpecEnvelope == InitEnvelope /\ [][PlayFrequency]_vars

\* arrangements for playback as the Arrangement type admits them
RawPlayArrangements ==
    {[notes |-> ns, tempo_bpm |-> 120, total_duration |-> SumDur(ns, Len(ns))] :
        ns \in SeqsOver({Tone(0, 50), Tone(440, 50), Rest(50)}, MaxPlayNotes)}

InitRawPlay ==
    /\ arrangement \in RawPlayArrangements
    /\ ExportIdle
    /\ PlayIdle

SpecRawPlayExport == InitRawPlay /\ [][NextWithExport]_vars

InitNamesRaw ==
    /\ arrangement = [notes |-> <<Tone(440, 500)>>, tempo_bpm |-> 120, total_duration |-> 500]
    /\ ExportIdle
    /\ nameIn \in NoteNames \cup BadNames
    /\ envIn = [duration |-> 500, settings |-> defaultAudioSettings]
    /\ engine = EngineNew
    /\ player = PlayerNew(arrangement)
    /\ inflight = 0
    /\ micro = <<>>
    /\ lastCall = "none"
    /\ raced = FALSE
    /\ lastPoll = NoPoll

SpecNamesRaw == InitNamesRaw /\ [][NameRoundTrip]_vars

\* ===================================================================== claims

BE32(bytes, i) ==
    ((bytes[i] * 256 + bytes[i + 1]) * 256 + bytes[i + 2]) * 256 + bytes[i + 3]

\* C1: the 32-bit big-endian track length at bytes 18..21 of the export is the
\* number of bytes that follow it: output length = 14 + 8 + that value.
C1_TrackLength ==
    midiOut # <<>> =>
        /\ Len(midiOut) >= 22
        /\ BE32(midiOut, 19) = Len(midiOut) - 22

\* an export with a rest, two notes and a three-byte delta-time
C1_Witness ==
    /\ midiOut # <<>>
    /\ Len(midiDeltas) >= 2
    /\ \E n \in 1..Len(arrangement.notes) : arrangement.notes[n].is_rest
    /\ \E k \in 1..Len(midiDeltas) : midiDeltas[k].on >= 16384
    /\ \E k \in 1..Len(midiDeltas) : midiDeltas[k].off >= 128

\* C2: every Note-On delta-time is the ticks of the rest time since the
\* preceding Note-Off (since the start for the first note), every Note-Off
\* delta-time the ticks of the note's duration.
C2_DeltaTimes ==
    midiOut # <<>> =>
        \A k \in 1..Len(midiDeltas) :
            LET i == midiDeltas[k].index
                prevEnd == IF k = 1 THEN 0
                           ELSE SumDur(arrangement.notes, midiDeltas[k - 1].index)
            IN  /\ midiDeltas[k].on =
                       Ticks(SumDur(arrangement.notes, i - 1) - prevEnd, arrangement.tempo_bpm)
                /\ midiDeltas[k].off =
                       Ticks(arrangement.notes[i].duration, arrangement.tempo_bpm)

RECURSIVE VlqDecodeFrom(_, _)
\* the standard decoder: value = value * 128 + (byte & 0x7F) per byte, up to
\* the first byte with the high bit clear
VlqDecodeFrom(bytes, value) ==
    IF bytes = <<>> THEN -1
    ELSE LET next == value * 128 + (Head(bytes) % 128)
         IN  IF Head(bytes) < 128 THEN next ELSE VlqDecodeFrom(Tail(bytes), next)

VlqDecode(bytes) == VlqDecodeFrom(bytes, 0)

\* C3: encodeVariableLength(v) decodes to v under the standard decoder.
C3_VlqStandard == vlqIn # -1 => VlqDecode(vlqOut) = vlqIn

IsIdle(ps) == ~ps.isPlaying /\ ps.currentNoteIndex = -1 /\ ps.currentTime = 0

\* C4: when stopPlayback has returned the engine tracks no voice and
\* PlaybackState is idle.
C4_StopLeavesNothing ==
    lastCall = "stopPlayback" =>
        /\ engine.scheduledNotes = <<>>
        /\ engine.currentOscillator = Null
        /\ IsIdle(player.playbackState)

\* stopPlayback has just cancelled the voices of a run
C4_Witness ==
    /\ lastCall = "stopPlayback"
    /\ engine.cancelled > 0
    /\ engine.audioContext = "running"
    /\ IsIdle(player.playbackState)

\* no playArrangement call is under way
Settled == inflight = 0 /\ micro = <<>>

C6_OneRunOnly ==
    \A k \in 1..Len(engine.scheduledNotes) : engine.scheduledNotes[k].latest

\* two overlapping playNoteSequence calls have both made their pass, the
\* second over the voices of the first
C6_Witness ==
    /\ micro = <<"sequenced", "sequenced">>
    /\ engine.scheduledNotes # <<>>
    /\ engine.cancelled > 0

\* C7: a playback that is playing becomes idle, with no stop needed.
C7_NaturalCompletion ==
    player.playbackState.isPlaying ~> IsIdle(player.playbackState)

\* the poll has found the elapsed time at or past total_duration and has reset
\* PlaybackState
C7_Witness ==
    /\ lastCall = "updateProgress"
    /\ lastPoll # NoPoll
    /\ lastPoll.finished
    /\ IsIdle(player.playbackState)
    /\ ~player.isPlayingRef

Overlap(a, b) ==
    /\ a.stopIn > 0 /\ b.stopIn > 0
    /\ a.startIn < b.stopIn
    /\ b.startIn < a.stopIn

\* C9: no two voices have overlapping sounding intervals.
C9_OneVoiceAtATime ==
    \A j, k \in 1..Len(engine.scheduledNotes) :
        j < k => ~Overlap(engine.scheduledNotes[j], engine.scheduledNotes[k])

\* C10: the gain of a voice is 0 at T0 and back at 0 by T0 + D, and neither
\* the last breakpoint nor the stop time lies after T0 + D.
C10_VoiceWithinNote ==
    \A k \in 1..Len(engine.scheduledNotes) :
        LET v == engine.scheduledNotes[k]
            last == v.envelope[Len(v.envelope)]
        IN  /\ v.envelope[1] = [at |-> 0, gain |-> 0]
            /\ last.gain = 0
            /\ last.at <= v.duration * 1000
            /\ v.noteDuration <= v.duration

\* a pass of playNoteSequence has just been made without a throw
JustSequenced ==
    /\ micro # <<>>
    /\ micro[Len(micro)] = "sequenced"
    /\ lastCall \in {"playArrangement", "playNoteSequence"}

\* C11: right after a pass the voice of note i starts at T0 plus the sum of
\* the durations of the notes before i; and at all times the voice of an
\* earlier note starts no later than the voice of a later note.
C11_AbsoluteStarts ==
    /\ JustSequenced =>
           \A k \in 1..Len(engine.scheduledNotes) :
               engine.scheduledNotes[k].startIn =
                   SumDur(arrangement.notes, engine.scheduledNotes[k].index)
    /\ \A j, k \in 1..Len(engine.scheduledNotes) :
           engine.scheduledNotes[j].index < engine.scheduledNotes[k].index
               => engine.scheduledNotes[j].startIn <= engine.scheduledNotes[k].startIn

\* a pass over two notes: the second voice starts after T0
C11_Witness ==
    /\ JustSequenced
    /\ Len(engine.scheduledNotes) = 2
    /\ engine.scheduledNotes[2].startIn > 0
    /\ engine.scheduledNotes[2].startIn = arrangement.notes[1].duration

RECURSIVE SkipVlq(_, _)
\* the position after the delta-time that starts at position i
SkipVlq(bytes, i) ==
    IF i > Len(bytes) THEN i
    ELSE IF bytes[i] < 128 THEN i + 1 ELSE SkipVlq(bytes, i + 1)

RECURSIVE ParseEvents(_, _, _)
\* the channel events of bytes[i..stop], each a delta-time and three bytes
ParseEvents(bytes, i, stop) ==
    IF i > stop THEN <<>>
    ELSE LET j == SkipVlq(bytes, i)
         IN  IF j + 2 > stop THEN <<[status |-> -1, note |-> -1, velocity |-> -1]>>
             ELSE <<[status |-> bytes[j], note |-> bytes[j + 1], velocity |-> bytes[j + 2]]>>
                      \o ParseEvents(bytes, j + 3, stop)

\* round(69 + 12 * log2(f / 440)) for A4 and C5
NoteNumberOf(f) == IF f = 440 THEN 69 ELSE 72

RECURSIVE ExpectedEvents(_, _)
ExpectedEvents(notes, n) ==
    IF n = 0 THEN <<>>
    ELSE ExpectedEvents(notes, n - 1) \o
         (IF notes[n].is_rest THEN <<>>
          ELSE <<[status |-> 144, note |-> NoteNumberOf(notes[n].frequency), velocity |-> 100],
                 [status |-> 128, note |-> NoteNumberOf(notes[n].frequency), velocity |-> 0]>>)

\* C13: between the tempo event and the end-of-track event the export holds,
\* in sequence order, one Note-On (0x90, n, velocity 100) directly followed by
\* one Note-Off (0x80, n, velocity 0) per note that is no rest, and nothing
\* for a rest.
C13_EventPairs ==
    midiOut # <<>> =>
        ParseEvents(midiOut, 30, Len(midiOut) - 4)
            = ExpectedEvents(arrangement.notes, Len(arrangement.notes))

\* an export of a note, a rest and another note
C13_Witness ==
    /\ midiOut # <<>>
    /\ Len(arrangement.notes) = 3
    /\ arrangement.notes[1].frequency = 440
    /\ arrangement.notes[2].is_rest
    /\ arrangement.notes[3].frequency = 523
    /\ Len(ParseEvents(midiOut, 30, Len(midiOut) - 4)) = 4

\* C14: the export starts with the 14 header bytes and MTrk; its events start
\* with 00 FF 51 03 and the 24-bit big-endian integer nearest to
\* 60000000 / tempo_bpm, and end with 00 FF 2F 00.
C14_HeaderTempoEnd ==
    midiOut # <<>> =>
        LET m == (midiOut[27] * 256 + midiOut[28]) * 256 + midiOut[29]
            bpm == arrangement.tempo_bpm
        IN  /\ SubSeq(midiOut, 1, 14) = <<77, 84, 104, 100, 0, 0, 0, 6, 0, 0, 0, 1, 1, 224>>
            /\ SubSeq(midiOut, 15, 18) = <<77, 84, 114, 107>>
            /\ SubSeq(midiOut, 23, 26) = <<0, 255, 81, 3>>
            /\ 2 * (m * bpm - 60000000) <= bpm
            /\ 2 * (60000000 - m * bpm) < bpm
            /\ SubSeq(midiOut, Len(midiOut) - 3, Len(midiOut)) = <<0, 255, 47, 0>>

\* an export at a tempo that does not divide 60000000
C14_Witness ==
    /\ midiOut # <<>>
    /\ arrangement.tempo_bpm = 70
    /\ SubSeq(midiOut, 27, 29) = <<13, 20, 55>>

Unencodable(note) == ~note.is_rest /\ note.frequency = 0

\* C16: an arrangement with a note that cannot be encoded is never exported
\* to a buffer.
C16_RejectsUnencodable ==
    (\E n \in 1..Len(arrangement.notes) : Unencodable(arrangement.notes[n]))
        => midiOut = <<>>

\* C17: a playArrangement call that goes on after its await while a run is
\* playing fails and leaves the engine and PlaybackState as they are.
C17_AlreadyPlaying ==
    [][(player.playbackState.isPlaying /\ micro # <<>> /\ Head(micro) = "resumed") =>
           /\ engine' = engine
           /\ player'.playbackState = player.playbackState
           /\ micro'[Len(micro')] = "failed"]_vars

\* C18: when the catch of playArrangement has run, PlaybackState is idle, no
\* timeout of the progress poll is pending and no voice is scheduled.
C18_NoPartialState ==
    [][(micro # <<>> /\ Head(micro) = "failed") =>
           /\ IsIdle(player'.playbackState)
           /\ ~player'.isPlayingRef
           /\ player'.timers = NoTimers
           /\ player'.playbackTimerRef = NoTimer
           /\ engine'.scheduledNotes = <<>>
           /\ engine'.currentOscillator = Null]_vars

\* C19: when initialize() has returned without a throw the engine has its
\* context and its master gain, whatever an earlier initialize() did.
C19_InitRecovers ==
    (micro # <<>> /\ Head(micro) = "initDone") =>
        /\ engine.audioContext # Null
        /\ engine.masterGain

\* C20: frequencyToNoteName(noteNameToFrequency(N)) returns N.
C20_NameRoundTrip ==
    nameOut.done => (~nameOut.threw /\ nameOut.name = nameIn)

\* <letter A-G>[# or b]<integer octave>
WellFormedName(name) ==
    /\ \E letter \in {"A", "B", "C", "D", "E", "F", "G"}, accidental \in {"", "#", "b"} :
           name.note = letter \o accidental
    /\ name.octave >= 0

\* C21: noteNameToFrequency throws exactly for the names that are not of the
\* form <letter A-G>[# or b]<integer octave>.
C21_InvalidNamesOnly ==
    nameOut.done => (nameOut.threw <=> ~WellFormedName(nameIn))

\* C22: the lines of exportToPython between the head of play_arrangement and
\* the closing blank line are one per note, in order: time.sleep for a rest,
\* play_frequency with the note's frequency, duration and name otherwise.
C22_OneLinePerNote ==
    pyOut # <<>> =>
        LET body == SubSeq(pyOut, 15, Len(pyOut) - 3)
        IN  /\ Len(body) = Len(arrangement.notes)
            /\ \A k \in 1..Len(body) :
                   LET note == arrangement.notes[k]
                   IN  /\ body[k].duration * 10 = note.duration
                       /\ IF note.is_rest
                          THEN body[k].call = "time.sleep"
                          ELSE /\ body[k].call = "play_frequency"
                               /\ body[k].frequency = note.frequency * 100
                               /\ body[k].comment # ""
                               /\ body[k].comment # "Rest"
                               /\ ("note_name" \in DOMAIN note) => body[k].comment = note.note_name

\* an export of a note without a name, a rest and a note with a name
C22_Witness ==
    /\ pyOut # <<>>
    /\ Len(arrangement.notes) = 3
    /\ arrangement.notes[1] = Tone(523, 10)
    /\ arrangement.notes[2].is_rest
    /\ "note_name" \in DOMAIN arrangement.notes[3]
    /\ pyOut[15].comment = "C5"
    /\ pyOut[16].call = "time.sleep"
    /\ pyOut[17].comment = "La4"

\* C23: while the run is off (after stopPlayback, after the completing poll,
\* until the next start) no timeout of the progress poll is pending.
C23_TimerStops ==
    ~player.isPlayingRef => player.timers = NoTimers

\* C24: at most one timeout of the progress poll is pending, and it is the
\* one playbackTimerRef holds.
C24_OneChain ==
    /\ player.timers.loose = <<>>
    /\ player.timers.held # <<>> => player.playbackTimerRef = HeldTimer

\* C25: while PlaybackState is not playing, no voice of the engine is
\* sounding or still to sound.
C25_IdleIsSilent ==
    ~player.playbackState.isPlaying =>
        \A k \in 1..Len(engine.scheduledNotes) : engine.scheduledNotes[k].stopIn = 0

\* nothing is left to happen in the engine: no voice is tracked, no ended
\* event is due and no call is under way
Quiescent ==
    /\ engine.scheduledNotes = <<>>
    /\ engine.cancelled = 0
    /\ Settled

\* C26: isCurrentlyPlaying() is true while a voice of the run has not ended,
\* and false once nothing is left to happen in the engine.
C26_IsPlayingEnds ==
    /\ engine.scheduledNotes # <<>> => engine.isPlaying
    /\ Quiescent => ~engine.isPlaying

\* C27: a poll that does not complete the run reports an index in
\* 0..notes.length-1 that is not below the index reported before it.
C27_IndexMonotone ==
    [][(lastCall' = "updateProgress" /\ lastPoll' # NoPoll /\ ~lastPoll'.finished) =>
           /\ player'.playbackState.currentNoteIndex \in 0..(Len(arrangement.notes) - 1)
           /\ player.playbackState.isPlaying =>
                  player'.playbackState.currentNoteIndex
                      >= player.playbackState.currentNoteIndex]_vars

\* C29: the Pause button keeps the position: currentNoteIndex and currentTime
\* are after the click what they were before it.
C29_PauseKeepsPosition ==
    [][(micro = <<>> /\ StopOffered /\ lastCall' = "stopPlayback") =>
           /\ player'.playbackState.currentNoteIndex = player.playbackState.currentNoteIndex
           /\ player'.playbackState.currentTime = player.playbackState.currentTime]_vars

\* C28: the envelope breakpoints of a voice of duration D are scheduled in
\* non-decreasing time order and none lies after T0 + D.
C28_EnvelopeOrdered ==
    envOut # <<>> =>
        /\ \A k \in 1..(Len(envOut) - 1) : envOut[k].at <= envOut[k + 1].at
        /\ \A k \in 1..Len(envOut) : envOut[k].at >= 0 /\ envOut[k].at <= envIn.duration

\* C30: exportToMIDI writes a Note-On/Note-Off pair for exactly the notes
\* playNoteSequence gives a voice, and at the ticks of the voice's start.
C30_SchedulerExporterAgree ==
    (midiOut # <<>> /\ JustSequenced) =>
        /\ {midiDeltas[k].index : k \in 1..Len(midiDeltas)}
               = {engine.scheduledNotes[k].index + 1 : k \in 1..Len(engine.scheduledNotes)}
        /\ \A j \in 1..Len(midiDeltas), k \in 1..Len(engine.scheduledNotes) :
               midiDeltas[j].index = engine.scheduledNotes[k].index + 1 =>
                   midiDeltas[j].on =
                       Ticks(engine.scheduledNotes[k].startIn, arrangement.tempo_bpm)

====
